---- MODULE Spec2Model ----
(***************************************************************************)
(* Steensgaard points-to analysis: the union-find store (union_find.py),   *)
(* the Analyst solver (analyst.py) and the constraint dispatcher           *)
(* (steensgaard.py, run_steensgaard_analysis).                             *)
(*                                                                         *)
(* Encoding of Python values.  UF IDs are integers: the fresh IDs minted   *)
(* by fresh_type are 0, 1, 2, ... as in the code; a program variable       *)
(* (a string in the code) is the negative integer Var(k).  A reference to  *)
(* a TypeNode object is the key under which the object sits in nodes       *)
(* (new_type installs one object per key and no handler of the dispatcher  *)
(* replaces it), so reading a field through a reference reads the current  *)
(* record.  A Python exception ends the run: err holds its name.           *)
(*                                                                         *)
(* Four specifications: Spec is run_steensgaard_analysis on a list of       *)
(* constraints; SpecHandlers is a client of Analyst that hands every        *)
(* record to its handler, handle_fun_def and handle_fun_app included;       *)
(* SpecUF is the union-find store under add, find and union calls;          *)
(* SpecFrontend is the frontend of main (sil_parser.py): parse_string,      *)
(* get_all_constraints and get_all_variables on a SIL program.              *)
(***************************************************************************)
EXTENDS Integers, Sequences, FiniteSets, TLC

\* ------------------------------------------------------------------ bounds
NumVars == 2          \* variables of the exhaustively enumerated programs
MaxLen == 2           \* length of the exhaustively enumerated programs
MaxOperands == 1      \* operand_variables of an op constraint
NumItems == 4         \* items of the stand-alone union-find store
MaxDepth == 2          \* nesting of blocks in the parsed programs

RecursionLimit == 6   \* depth at which the recursion of join is cut off

\* ---------------------------------------------------------- Python values
None == -100

Var(k) == 0 - k
Vars == {Var(k) : k \in 1..NumVars}
Items == 0 .. (NumItems - 1)

Put(f, k, v) == [a \in (DOMAIN f) \cup {k} |-> IF a = k THEN v ELSE f[a]]

Raise(s, e) == [s EXCEPT !.err = e]

\* iteration of a Python set of small integers (for x in self.pending[e])
RECURSIVE SetOrder(_)
SetOrder(S) ==
    IF S = {} THEN <<>>
    ELSE LET m == CHOOSE a \in S : \A b \in S : a <= b
         IN <<m>> \o SetOrder(S \ {m})

\* ------------------------------------------------------------- union_find
\* an add that makes the item its own parent whether or not it is present
add_overwrite(par, item) == Put(par, item, item)

\* UnionFind.add
add(par, item) == IF item \notin DOMAIN par THEN Put(par, item, item) ELSE par

\* UnionFind.find (no path compression: the parent map is only read)
RECURSIVE find(_, _)
find(par, item) == IF par[item] = item THEN item ELSE find(par, par[item])

\* a union that re-parents item2 itself instead of the root of its class
union_reparent_item(par, item1, item2) ==
    LET root1 == find(par, item1)
        root2 == find(par, item2)
    IN IF root1 # root2 THEN [par EXCEPT ![item2] = root1] ELSE par

\* a union that links item2 itself under item1
union_link_items(par, item1, item2) ==
    LET root1 == find(par, item1)
        root2 == find(par, item2)
    IN IF root1 # root2 THEN [par EXCEPT ![item2] = item1] ELSE par

\* a union that puts the root of item1's class under the root of item2's
union_under_second(par, item1, item2) ==
    LET root1 == find(par, item1)
        root2 == find(par, item2)
    IN IF root1 # root2 THEN [par EXCEPT ![root1] = root2] ELSE par

\* UnionFind.union: the parent map after the call
union(par, item1, item2) ==
    LET root1 == find(par, item1)
        root2 == find(par, item2)
    IN IF root1 # root2 THEN [par EXCEPT ![root2] = root1] ELSE par

\* a union that hands back the representative of the merged class
union_result_root(par, item1, item2) == find(par, item1)

\* UnionFind.union: the value handed back to the caller (no return statement)
union_result(par, item1, item2) == None

\* a find that answers for an item that was never added
find_call_lenient(par, item) ==
    IF item \notin DOMAIN par
    THEN [parent |-> par, ret |-> item, err |-> "none"]
    ELSE [parent |-> par, ret |-> find(par, item), err |-> "none"]

\* one call of UnionFind.find by a client: the parent map after the call,
\* the value returned and the exception raised.  self.parent[item] raises
\* KeyError for an item that was never added.
find_call(par, item) ==
    IF item \notin DOMAIN par
    THEN [parent |-> par, ret |-> None, err |-> "KeyError"]
    ELSE [parent |-> par, ret |-> find(par, item), err |-> "none"]

\* one call of UnionFind.union by a client: the two finds come first, so an
\* item that was never added raises before the parent map is written
union_call(par, item1, item2) ==
    IF item1 \notin DOMAIN par \/ item2 \notin DOMAIN par
    THEN [parent |-> par, ret |-> None, err |-> "KeyError"]
    ELSE [parent |-> union(par, item1, item2),
          ret |-> union_result(par, item1, item2), err |-> "none"]

\* a get_sets loop that files each item under its direct parent
RECURSIVE get_sets_loop_by_parent(_, _, _)
get_sets_loop_by_parent(par, items, sets) ==
    IF items = <<>> THEN sets
    ELSE LET item == Head(items)
             root == par[item]
             at == {k \in 1..Len(sets) : sets[k][1] = root}
         IN IF at = {}
            THEN get_sets_loop_by_parent(par, Tail(items),
                                         Append(sets, <<root, <<item>>>>))
            ELSE LET k == CHOOSE k \in at : TRUE
                 IN get_sets_loop_by_parent(par, Tail(items),
                        [sets EXCEPT ![k] = <<root, Append(sets[k][2], item)>>])

\* UnionFind.get_sets, the loop: items are the keys of self.parent in the
\* order the dict yields them, sets is the dict root -> member list, kept as
\* the sequence of its (key, value) pairs in insertion order
RECURSIVE get_sets_loop(_, _, _)
get_sets_loop(par, items, sets) ==
    IF items = <<>> THEN sets
    ELSE LET item == Head(items)
             root == find(par, item)
             at == {k \in 1..Len(sets) : sets[k][1] = root}
         IN IF at = {}
            THEN get_sets_loop(par, Tail(items),
                               Append(sets, <<root, <<item>>>>))
            ELSE LET k == CHOOSE k \in at : TRUE
                 IN get_sets_loop(par, Tail(items),
                        [sets EXCEPT ![k] = <<root, Append(sets[k][2], item)>>])

\* UnionFind.get_sets: list(sets.values()), for the key order the dict has
get_sets_lists(par, items) ==
    LET sets == get_sets_loop(par, items, <<>>)
    IN [k \in 1..Len(sets) |-> sets[k][2]]

\* the orders in which a dict with the keys S can yield them (insertion
\* order: any order of the add calls)
KeyOrders(S) ==
    {q \in [1..Cardinality(S) -> S] : \A a \in S : \E k \in DOMAIN q : q[k] = a}

\* UnionFind.get_sets, as the set of member sets
get_sets(par) ==
    {{b \in DOMAIN par : find(par, b) = find(par, a)} : a \in DOMAIN par}

\* ---------------------------------------------------------------- analyst
\* TypeNode.__init__
TypeNode(uf_id) ==
    [uf_id |-> uf_id, tau |-> None, lam |-> None,
     lam_args |-> <<>>, lam_rets |-> <<>>]

\* TypeNode.is_bottom
is_bottom(t) == t.tau = None /\ t.lam = None

\* Analyst.__init__
Analyst ==
    [parent |-> <<>>, nodes |-> <<>>, pending |-> <<>>, next_id |-> 0,
     err |-> "none"]

\* Analyst.ecr
ecr(s, a) == find(s.parent, a)

\* Analyst.new_type
new_type(s, uf_id) ==
    [s EXCEPT !.parent = add(s.parent, uf_id),
              !.nodes = Put(s.nodes, uf_id, TypeNode(uf_id)),
              !.pending = Put(s.pending, uf_id, {})]

\* Analyst.fresh_type: the new node has uf_id = s.next_id
fresh_type(s) == new_type([s EXCEPT !.next_id = @ + 1], s.next_id)

\* Analyst.get_tau: the state after the call; the value is nodes[t].tau there
get_tau(s, t) ==
    IF s.nodes[t].tau = None
    THEN [fresh_type(s) EXCEPT !.nodes[t].tau = s.next_id]
    ELSE s

\* Analyst.get_lam
get_lam(s, t) ==
    IF s.nodes[t].lam = None
    THEN [fresh_type(s) EXCEPT !.nodes[t].lam = s.next_id]
    ELSE s

\* Analyst.assign_type: copy the structural fields of t into the record of e
assign_type(s, e, t) ==
    IF e \notin DOMAIN s.nodes THEN Raise(s, "KeyError")
    ELSE [s EXCEPT !.nodes[e].tau = s.nodes[t].tau,
                   !.nodes[e].lam = s.nodes[t].lam,
                   !.nodes[e].lam_args = s.nodes[t].lam_args,
                   !.nodes[e].lam_rets = s.nodes[t].lam_rets]

RECURSIVE join(_, _, _, _)
RECURSIVE join_each(_, _, _, _)
RECURSIVE unify_tau(_, _, _, _)

\* Analyst.join; d is the depth of the call
join(s, e1, e2, d) ==
    IF s.err # "none" THEN s
    ELSE IF d > RecursionLimit THEN Raise(s, "RecursionError")
    ELSE IF e1 \notin DOMAIN s.nodes \/ e2 \notin DOMAIN s.nodes
         THEN Raise(s, "KeyError")
    ELSE
      LET t1 == e1
          t2 == e2
          e == union_result(s.parent, e1, e2)
          s1 == [s EXCEPT !.parent = union(s.parent, e1, e2)]
      IN IF is_bottom(s1.nodes[t1])
         THEN LET s2 == assign_type(s1, e, t2)
              IN IF s2.err # "none" THEN s2
                 ELSE IF is_bottom(s2.nodes[t2])
                 THEN [s2 EXCEPT !.pending[e] =
                                    s2.pending[e1] \cup s2.pending[e2]]
                 ELSE join_each(s2, e, SetOrder(s2.pending[e1]), d + 1)
         ELSE LET s2 == assign_type(s1, e, t1)
              IN IF s2.err # "none" THEN s2
                 ELSE IF is_bottom(s2.nodes[t2])
                 THEN join_each(s2, e, SetOrder(s2.pending[e2]), d + 1)
                 ELSE unify_tau(s2, t1, t2, d + 1)

\* the loops "for x in self.pending[..]: self.join(e, x)"
join_each(s, e, xs, d) ==
    IF xs = <<>> \/ s.err # "none" THEN s
    ELSE join_each(join(s, e, Head(xs), d), e, Tail(xs), d)

\* Analyst.unify_tau
unify_tau(s, type_e1, type_e2, d) ==
    LET s1 == get_tau(s, type_e1)
        tau1 == s1.nodes[type_e1].tau
        s2 == get_lam(s1, type_e1)
        lam1 == s2.nodes[type_e1].lam
        s3 == get_tau(s2, type_e2)
        tau2 == s3.nodes[type_e2].tau
        s4 == get_lam(s3, type_e2)
        lam2 == s4.nodes[type_e2].lam
        s5 == IF tau1 # tau2 THEN join(s4, tau1, tau2, d) ELSE s4
    IN IF s5.err = "none" /\ lam1 # lam2 THEN join(s5, lam1, lam2, d) ELSE s5

\* Analyst.cjoin
cjoin(s, e1, e2) ==
    IF s.err # "none" THEN s
    ELSE IF e2 \notin DOMAIN s.nodes THEN Raise(s, "KeyError")
    ELSE IF is_bottom(s.nodes[e2])
         THEN [s EXCEPT !.pending = Put(s.pending, e2, {e1} \cup s.pending[e2])]
         ELSE join(s, e1, e2, 1)

\* a settype that copies the fields and leaves pending(e) undrained
settype_no_drain(s, e, t) == assign_type(s, e, t)

\* Analyst.settype
settype(s, e, t) ==
    LET s1 == assign_type(s, e, t)
    IN IF s1.err # "none" THEN s1
       ELSE join_each(s1, e, SetOrder(s1.pending[e]), 1)

\* Analyst.handle_assign
handle_assign(s, x, y) ==
    LET type_x == ecr(s, x)
        s1 == get_tau(s, type_x)
        tau1 == s1.nodes[type_x].tau
        lam1 == s1.nodes[type_x].lam
        type_y == ecr(s1, y)
        s2 == get_tau(s1, type_y)
        tau2 == s2.nodes[type_y].tau
        lam2 == s2.nodes[type_y].lam
        s3 == IF tau1 # tau2 THEN cjoin(s2, tau1, tau2) ELSE s2
    IN IF lam1 # lam2 THEN cjoin(s3, lam1, lam2) ELSE s3

\* Analyst.handle_addr_of
handle_addr_of(s, x, y) ==
    LET type_x == ecr(s, x)
        s1 == get_tau(s, type_x)
        tau1 == s1.nodes[type_x].tau
        tau2 == ecr(s1, y)
    IN IF tau1 # tau2 THEN join(s1, tau1, tau2, 1) ELSE s1

\* Analyst.handle_deref
handle_deref(s, x, y) ==
    LET type_x == ecr(s, x)
        s1 == get_tau(s, type_x)
        tau1 == s1.nodes[type_x].tau
        lam1 == s1.nodes[type_x].lam
        type_y == ecr(s1, y)
        s2 == get_tau(s1, type_y)
        tau2 == s2.nodes[type_y].tau
        type_tau2 == tau2
    IN IF is_bottom(s2.nodes[type_tau2])
       THEN settype(s2, tau2, type_x)
       ELSE LET s3 == get_tau(s2, type_tau2)
                tau3 == s3.nodes[type_tau2].tau
                lam3 == s3.nodes[type_tau2].lam
                s4 == IF tau1 # tau3 THEN cjoin(s3, tau1, tau3) ELSE s3
            IN IF lam1 # lam3 THEN cjoin(s4, lam1, lam3) ELSE s4

\* Analyst.handle_op
\* a handle_op that handles its first operand and skips the others
handle_op_first_only(s, x, operands) ==
    IF operands = <<>> THEN s ELSE handle_assign(s, x, Head(operands))

RECURSIVE handle_op(_, _, _)
handle_op(s, x, operands) ==
    IF operands = <<>> \/ s.err # "none" THEN s
    ELSE LET y == Head(operands)
             type_x == ecr(s, x)
             s1 == get_tau(s, type_x)
             tau1 == s1.nodes[type_x].tau
             lam1 == s1.nodes[type_x].lam
             type_y == ecr(s1, y)
             s2 == get_tau(s1, type_y)
             tau2 == s2.nodes[type_y].tau
             lam2 == s2.nodes[type_y].lam
             s3 == IF tau1 # tau2 THEN cjoin(s2, tau1, tau2) ELSE s2
             s4 == IF lam1 # lam2 THEN cjoin(s3, lam1, lam2) ELSE s3
         IN handle_op(s4, x, Tail(operands))

\* Analyst.make_ecr_type: the state after the call; the node is s.next_id
make_ecr_type(s) == fresh_type(s)

\* Analyst.handle_allocate
handle_allocate(s, x) ==
    LET type_x == ecr(s, x)
        s1 == get_tau(s, type_x)
        tau == s1.nodes[type_x].tau
    IN IF is_bottom(s1.nodes[tau])
       THEN settype(make_ecr_type(s1), tau, s1.next_id)
       ELSE s1

\* Analyst.handle_store
handle_store(s, x, y) ==
    LET type_x == ecr(s, x)
        s1 == get_tau(s, type_x)
        tau1 == s1.nodes[type_x].tau
        type_y == ecr(s1, y)
        s2 == get_tau(s1, type_y)
        tau2 == s2.nodes[type_y].tau
        lam2 == s2.nodes[type_y].lam
        type_tau1 == tau1
    IN IF is_bottom(s2.nodes[type_tau1])
       THEN settype(s2, tau1, type_y)
       ELSE LET s3 == get_tau(s2, type_tau1)
                tau3 == s3.nodes[type_tau1].tau
                lam3 == s3.nodes[type_tau1].lam
                s4 == IF tau2 # tau3 THEN cjoin(s3, tau3, tau2) ELSE s3
            IN IF lam2 # lam3 THEN cjoin(s4, lam3, lam2) ELSE s4

\* a get_alpha that hands the name back without registering it
get_alpha_unregistered(s, e) == s

\* Analyst.get_alpha
get_alpha(s, e) == IF e \notin DOMAIN s.nodes THEN new_type(s, e) ELSE s

\* the loops "for f_i in f: alpha_f.append(self.get_alpha(f_i))": the state
\* after them; the list built is es itself
RECURSIVE get_alpha_each(_, _)
get_alpha_each(s, es) ==
    IF es = <<>> THEN s ELSE get_alpha_each(get_alpha(s, Head(es)), Tail(es))

\* Analyst.make_lam_type: a TypeNode("_") that is not put into nodes; its
\* slot lists hold UF IDs
make_lam_type(args, rets) ==
    [TypeNode("_") EXCEPT !.lam_args = args, !.lam_rets = rets]

\* Analyst.assign_type called with a TypeNode that is not in nodes
assign_type_of(s, e, t) ==
    IF e \notin DOMAIN s.nodes THEN Raise(s, "KeyError")
    ELSE [s EXCEPT !.nodes[e].tau = t.tau,
                   !.nodes[e].lam = t.lam,
                   !.nodes[e].lam_args = t.lam_args,
                   !.nodes[e].lam_rets = t.lam_rets]

\* Analyst.settype called with a TypeNode that is not in nodes
settype_of(s, e, t) ==
    LET s1 == assign_type_of(s, e, t)
    IN IF s1.err # "none" THEN s1
       ELSE join_each(s1, e, SetOrder(s1.pending[e]), 1)

\* "alpha_i = slots[0]; self.get_tau(alpha_i)": the first round of a loop
\* that reads an element of a slot list as a TypeNode.  The lists hold UF IDs
\* (make_lam_type is their only source), so the read of .tau fails; on an
\* empty list the indexing fails first.
read_slot(s, slots) ==
    IF slots = <<>> THEN Raise(s, "IndexError")
    ELSE Raise(s, "AttributeError")

\* Analyst.unify_lam (no caller in the code): range(len(lam_args_e1)) and
\* range(len(lam_rets_e1)) drive the loops
unify_lam(s, type_e1, type_e2) ==
    IF s.nodes[type_e1].lam_args # <<>>
    THEN read_slot(s, s.nodes[type_e1].lam_args)
    ELSE IF s.nodes[type_e1].lam_rets # <<>>
    THEN read_slot(s, s.nodes[type_e1].lam_rets)
    ELSE s

\* Analyst.handle_fun_def
handle_fun_def(s, x, f, r) ==
    LET ecr_x == ecr(s, x)
        s1 == get_lam(s, ecr_x)
        lam == s1.nodes[ecr_x].lam
        type_lam == lam
    IN IF is_bottom(s1.nodes[type_lam])
       THEN LET s2 == get_alpha_each(get_alpha_each(s1, f), r)
            IN settype_of(s2, lam, make_lam_type(f, r))
       ELSE IF f # <<>> THEN read_slot(s1, s1.nodes[type_lam].lam_args)
       ELSE IF r # <<>> THEN read_slot(s1, s1.nodes[type_lam].lam_rets)
       ELSE s1

\* the loops "for i in y: alpha_i = self.make_ecr_type()": n nodes are minted
\* and the lists built from them are dropped
RECURSIVE make_ecr_types(_, _)
make_ecr_types(s, n) ==
    IF n = 0 THEN s ELSE make_ecr_types(make_ecr_type(s), n - 1)

\* Analyst.handle_fun_app; x is the list of receivers, y the list of arguments.
\* The loop over lam_rets indexes lam_args.
handle_fun_app(s, x, p, y) ==
    LET ecr_p == ecr(s, p)
        s1 == get_lam(s, ecr_p)
        lam == s1.nodes[ecr_p].lam
        type_lam == lam
        s2 == IF is_bottom(s1.nodes[type_lam])
              THEN make_ecr_types(s1, Len(y) + Len(x))
              ELSE s1
        lam_args == s2.nodes[type_lam].lam_args
        lam_rets == s2.nodes[type_lam].lam_rets
    IN IF lam_args # <<>> THEN read_slot(s2, lam_args)
       ELSE IF lam_rets # <<>> THEN read_slot(s2, lam_args)
       ELSE s2

\* ------------------------------------------------------------- sil_parser
\* A Python string is the sequence of its characters ("f_x" is
\* <<"f", "_", "x">>), so that prefixing a name and testing its first
\* character are what they are in the code.  The "type" tag of a record is
\* only ever compared with literals and stays a TLA+ string.

\* the characters of the inputs that str.isalpha accepts, and the digits
Alphas == {"x", "y", "p", "f", "a", "r"}
Nums == {"5"}

\* is_identifier
is_identifier(value) == value[1] \in Alphas

\* cmd_assign: tokens are x := y
cmd_assign(tokens) ==
    [type |-> "assign", lhs |-> tokens[1], rhs |-> tokens[3]]

\* cmd_addr_of: tokens are x := & y
cmd_addr_of(tokens) ==
    [type |-> "addr_of", lhs |-> tokens[1], rhs |-> tokens[4]]

\* cmd_deref: tokens are x := * y
cmd_deref(tokens) ==
    [type |-> "deref", lhs |-> tokens[1], rhs |-> tokens[4]]

\* cmd_store: tokens are * x := y
cmd_store(tokens) ==
    [type |-> "store", lhs |-> tokens[2], rhs |-> tokens[4]]

\* cmd_op: tokens are x := op ( operands )
cmd_op(tokens) ==
    LET operands == SubSeq(tokens, 5, Len(tokens) - 1)
    IN [type |-> "op", lhs |-> tokens[1], operation |-> tokens[3],
        operands |-> operands,
        operand_variables |-> SelectSeq(operands, is_identifier)]

\* cmd_allocate: tokens are x := allocate ( operand )
cmd_allocate(tokens) == [type |-> "allocate", lhs |-> tokens[1]]

\* add_scope: the statements after the in-place renaming
RECURSIVE add_scope(_, _)
add_scope(statements, scope_prefix) ==
    [k \in 1..Len(statements) |->
        LET stmt == statements[k]
            s1 == IF "lhs" \in DOMAIN stmt
                  THEN [stmt EXCEPT !.lhs = scope_prefix \o <<"_">> \o stmt.lhs]
                  ELSE stmt
            s2 == IF "rhs" \in DOMAIN s1
                  THEN [s1 EXCEPT !.rhs = scope_prefix \o <<"_">> \o s1.rhs]
                  ELSE s1
            s3 == IF "operand_variables" \in DOMAIN s2
                  THEN [s2 EXCEPT !.operand_variables =
                           [i \in 1..Len(s2.operand_variables) |->
                               scope_prefix \o <<"_">>
                                   \o s2.operand_variables[i]]]
                  ELSE s2
        IN IF "body" \in DOMAIN s3
           THEN [s3 EXCEPT !.body = add_scope(s3.body, scope_prefix)]
           ELSE s3]

\* cmd_fun_def, the parse action: tokens are the named results fun_name,
\* params, returns and body (a block: "{", the records of the statements
\* inside, "}")
cmd_fun_def_tokens(tokens) ==
    LET lhs == tokens.fun_name
        params_scope == [k \in 1..Len(tokens.params) |->
                            lhs \o <<"_">> \o tokens.params[k]]
        returns_scope == [k \in 1..Len(tokens.returns) |->
                             lhs \o <<"_">> \o tokens.returns[k]]
        body == SubSeq(tokens.body, 2, Len(tokens.body) - 1)
    IN [type |-> "fun_def", lhs |-> lhs, params |-> params_scope,
        returns |-> returns_scope, body |-> add_scope(body, lhs)]

\* cmd_fun_app, the parse action: tokens are the named results lhs,
\* fun_name and args
cmd_fun_app_tokens(tokens) ==
    [type |-> "fun_app", lhs |-> tokens.lhs, fun_name |-> tokens.fun_name,
     args |-> tokens.args,
     arg_variables |-> SelectSeq(tokens.args, is_identifier)]

\* the parse action of if_stmt
cmd_if(tokens) ==
    [type |-> "if",
     then |-> SubSeq(tokens.then, 2, Len(tokens.then) - 1),
     else |-> SubSeq(tokens.else, 2, Len(tokens.else) - 1)]

\* the parse action of while_stmt
cmd_while(tokens) ==
    [type |-> "while", body |-> SubSeq(tokens.body, 2, Len(tokens.body) - 1)]

\* the parse action of skip_stmt
cmd_skip == [type |-> "skip"]

\* block: Group(l_brace + ZeroOrMore(statement) + r_brace)
block(statements) == <<"{">> \o statements \o <<"}">>

\* parser.parse_string on a program the grammar accepts: a matched statement
\* is the name of its rule with the tokens the rule matched, by position
\* under "tokens" or by their results names; the parse actions run innermost
\* first, so a block reaches the action of the statement around it as the
\* records of its statements
RECURSIVE parse_string(_)
RECURSIVE parse_statement(_)
parse_statement(src) ==
    CASE src.rule = "op_stmt" -> cmd_op(src.tokens)
      [] src.rule = "allocate_stmt" -> cmd_allocate(src.tokens)
      [] src.rule = "addr_of_stmt" -> cmd_addr_of(src.tokens)
      [] src.rule = "deref_stmt" -> cmd_deref(src.tokens)
      [] src.rule = "store_stmt" -> cmd_store(src.tokens)
      [] src.rule = "fun_def_stmt" ->
            cmd_fun_def_tokens(
                [fun_name |-> src.fun_name,
                 params |-> src.params,
                 returns |-> src.returns,
                 body |-> block(parse_string(src.body))])
      [] src.rule = "fun_app" -> cmd_fun_app_tokens(src)
      [] src.rule = "assign_stmt" -> cmd_assign(src.tokens)
      [] src.rule = "if_stmt" ->
            cmd_if([then |-> block(parse_string(src.then)),
                    else |-> block(parse_string(src.else))])
      [] src.rule = "while_stmt" ->
            cmd_while([body |-> block(parse_string(src.body))])
      [] src.rule = "skip_stmt" -> cmd_skip

parse_string(program) ==
    [k \in 1..Len(program) |-> parse_statement(program[k])]

\* get_all_constraints
RECURSIVE get_all_constraints(_)
get_all_constraints(ast) ==
    IF Len(ast) = 0 THEN <<>>
    ELSE LET stmt == Head(ast)
             found ==
                 CASE stmt.type = "if" ->
                        get_all_constraints(stmt.then)
                            \o get_all_constraints(stmt.else)
                   [] stmt.type = "while" -> get_all_constraints(stmt.body)
                   [] stmt.type = "fun_def" ->
                        Append(get_all_constraints(stmt.body), stmt)
                   [] stmt.type = "skip" -> <<>>
                   [] OTHER ->
                        IF "rhs" \in DOMAIN stmt /\ is_identifier(stmt.rhs)
                        THEN <<stmt>>
                        ELSE IF "rhs" \notin DOMAIN stmt THEN <<stmt>>
                        ELSE <<>>
         IN found \o get_all_constraints(Tail(ast))

\* the elements of a Python list, as a set
Elements(list) == {list[k] : k \in 1..Len(list)}

RECURSIVE extract_variables_from_stmt(_)
RECURSIVE extract_variables_from_stmt_list(_)

\* an extraction that leaves out the function name of an application
extract_variables_without_fun_name(stmt) ==
    CASE stmt.type = "if" ->
            extract_variables_from_stmt_list(stmt.then)
                \cup extract_variables_from_stmt_list(stmt.else)
      [] stmt.type = "while" -> extract_variables_from_stmt_list(stmt.body)
      [] stmt.type = "fun_def" ->
            {stmt.lhs} \cup Elements(stmt.params) \cup Elements(stmt.returns)
                \cup extract_variables_from_stmt_list(stmt.body)
      [] stmt.type = "fun_app" ->
            {stmt.lhs} \cup Elements(stmt.arg_variables)
      [] stmt.type = "skip" -> {}
      [] OTHER ->
            (IF "lhs" \in DOMAIN stmt THEN {stmt.lhs} ELSE {})
            \cup (IF "rhs" \in DOMAIN stmt /\ is_identifier(stmt.rhs)
                  THEN {stmt.rhs} ELSE {})
            \cup (IF "operands" \in DOMAIN stmt
                  THEN Elements(stmt.operand_variables) ELSE {})

\* get_all_variables, extract_variables_from_stmt: the names one statement
\* adds to the set
extract_variables_from_stmt(stmt) ==
    CASE stmt.type = "if" ->
            extract_variables_from_stmt_list(stmt.then)
                \cup extract_variables_from_stmt_list(stmt.else)
      [] stmt.type = "while" -> extract_variables_from_stmt_list(stmt.body)
      [] stmt.type = "fun_def" ->
            {stmt.lhs} \cup Elements(stmt.params) \cup Elements(stmt.returns)
                \cup extract_variables_from_stmt_list(stmt.body)
      [] stmt.type = "fun_app" ->
            {stmt.lhs, stmt.fun_name} \cup Elements(stmt.arg_variables)
      [] stmt.type = "skip" -> {}
      [] OTHER ->
            (IF "lhs" \in DOMAIN stmt THEN {stmt.lhs} ELSE {})
            \cup (IF "rhs" \in DOMAIN stmt /\ is_identifier(stmt.rhs)
                  THEN {stmt.rhs} ELSE {})
            \cup (IF "operands" \in DOMAIN stmt
                  THEN Elements(stmt.operand_variables) ELSE {})
            \cup (IF "fun_name" \in DOMAIN stmt THEN {stmt.fun_name} ELSE {})
            \cup (IF "args" \in DOMAIN stmt
                  THEN Elements(stmt.arg_variables) ELSE {})

\* get_all_variables, extract_variables_from_stmt_list
extract_variables_from_stmt_list(stmt_list) ==
    UNION {extract_variables_from_stmt(stmt_list[k]) :
              k \in 1..Len(stmt_list)}

\* get_all_variables
get_all_variables(ast) == extract_variables_from_stmt_list(ast)

\* ------------------------------------------------ programs the grammar accepts
\* a statement matched by a rule without results names
Matched(rule, tokens) == [rule |-> rule, tokens |-> tokens]

\* operand = identifier | number
Operands == {<<"y">>, <<"5">>}

\* pp.delimitedList(operand): one operand or more
OperandLists == UNION {[1..n -> Operands] : n \in 1..MaxOperands}

\* the statements without a block, all with the target x
SimpleStatements ==
    {Matched("assign_stmt", <<<<"x">>, <<":", "=">>, o>>) : o \in Operands}
    \cup {Matched("addr_of_stmt", <<<<"x">>, <<":", "=">>, <<"&">>, o>>) :
             o \in Operands}
    \cup {Matched("deref_stmt", <<<<"x">>, <<":", "=">>, <<"*">>, o>>) :
             o \in Operands}
    \cup {Matched("store_stmt", <<<<"*">>, <<"x">>, <<":", "=">>, o>>) :
             o \in Operands}
    \cup {Matched("op_stmt",
                  <<<<"x">>, <<":", "=">>, <<"a", "d", "d">>, <<"(">>>>
                      \o os \o <<<<")">>>>) : os \in OperandLists}
    \cup {Matched("allocate_stmt",
                  <<<<"x">>, <<":", "=">>,
                    <<"a", "l", "l", "o", "c", "a", "t", "e">>,
                    <<"(">>, <<"5">>, <<")">>>>)}
    \cup {[rule |-> "fun_app", lhs |-> <<"x">>, fun_name |-> <<"p">>,
           args |-> os] : os \in OperandLists}
    \cup {Matched("skip_stmt", <<>>)}

\* the blocks an else branch is given
ElseBlocks ==
    {<<>>, <<Matched("assign_stmt", <<<<"x">>, <<":", "=">>, <<"y">>>>)>>}

\* the statements with blocks nested at most d deep: if, while and the
\* definition of a function f with one parameter and one return variable
RECURSIVE Statements(_)
Statements(d) ==
    IF d = 0 THEN SimpleStatements
    ELSE LET inner == Statements(d - 1)
         IN inner
            \cup {[rule |-> "if_stmt", then |-> <<s>>, else |-> e] :
                     s \in inner, e \in ElseBlocks}
            \cup {[rule |-> "while_stmt", body |-> <<s>>] : s \in inner}
            \cup {[rule |-> "fun_def_stmt", fun_name |-> <<"f">>,
                   params |-> <<<<"a">>>>, returns |-> <<<<"r">>>>,
                   body |-> <<s>>] : s \in inner}

\* program = OneOrMore(statement): one statement, or one statement and a
\* statement without a block after it
Programs ==
    {<<s>> : s \in Statements(MaxDepth)}
    \cup {<<s, t>> : s \in Statements(MaxDepth), t \in SimpleStatements}

\* ------------------------------------------------- constraints and inputs
\* the constraint records of sil_parser.py, reduced to the keys the
\* dispatcher reads: type, lhs, rhs, operand_variables
Constraint(t, l, r, ops) ==
    [type |-> t, lhs |-> l, rhs |-> r, operand_variables |-> ops]

\* cmd_fun_def: the record of f := fun(params) -> (returns) { body }, with
\* the keys the handlers can read (the body is flattened into constraints of
\* its own by get_all_constraints, ahead of this record)
cmd_fun_def(lhs, params, returns) ==
    [type |-> "fun_def", lhs |-> lhs, params |-> params, returns |-> returns]

\* cmd_fun_app: the record of lhs := fun_name(args)
cmd_fun_app(lhs, fun_name, arg_variables) ==
    [type |-> "fun_app", lhs |-> lhs, fun_name |-> fun_name,
     arg_variables |-> arg_variables]

SeqsUpTo(S, n) == UNION {[1..k -> S] : k \in 0..n}

ConstraintsOver(V) ==
    {Constraint(t, l, r, <<>>) :
        t \in {"assign", "addr_of", "deref", "store"}, l \in V, r \in V}
    \cup {Constraint("allocate", l, None, <<>>) : l \in V}
    \cup {Constraint("op", l, None, ops) :
             l \in V, ops \in SeqsUpTo(V, MaxOperands)}
    \cup {cmd_fun_def(Var(1), <<Var(1)>>, <<Var(1)>>),
          cmd_fun_app(Var(1), Var(1), <<>>),
          Constraint("skip", None, None, <<>>)}

Perms(cs) ==
    {p \in [1..Len(cs) -> {cs[k] : k \in 1..Len(cs)}] :
        \A c \in {cs[k] : k \in 1..Len(cs)} :
            Cardinality({k \in 1..Len(cs) : p[k] = c})
                = Cardinality({k \in 1..Len(cs) : cs[k] = c})}

\* the scenarios of the specification, on the variables Var(1)..Var(4)
ScenarioVars == {Var(1), Var(2), Var(3), Var(4)}

\* p := &x; q := &y; p := q        (p, q, x, y = Var(1..4))
ScenarioA ==
    <<Constraint("addr_of", Var(1), Var(3), <<>>),
      Constraint("addr_of", Var(2), Var(4), <<>>),
      Constraint("assign", Var(1), Var(2), <<>>)>>

\* p := allocate(); q := allocate(); p := q; x := *p   (p, q, x = Var(1..3))
ScenarioB ==
    <<Constraint("allocate", Var(1), None, <<>>),
      Constraint("allocate", Var(2), None, <<>>),
      Constraint("assign", Var(1), Var(2), <<>>),
      Constraint("deref", Var(3), Var(1), <<>>)>>

\* a := b; c := &d; a := c         (a, b, c, d = Var(1..4))
ScenarioC ==
    <<Constraint("assign", Var(1), Var(2), <<>>),
      Constraint("addr_of", Var(3), Var(4), <<>>),
      Constraint("assign", Var(1), Var(3), <<>>)>>

\* p := q; x := q; p := *q: two conditional joins deferred on tau(q),
\* then tau(q) receives a type
TwoPending ==
    <<Constraint("assign", Var(1), Var(2), <<>>),
      Constraint("assign", Var(3), Var(2), <<>>),
      Constraint("deref", Var(1), Var(2), <<>>)>>

\* p := q; p := *p; q := *q: cyclic tau chains on both sides of a deferred join
Cyclic ==
    <<Constraint("assign", Var(1), Var(2), <<>>),
      Constraint("deref", Var(1), Var(1), <<>>),
      Constraint("deref", Var(2), Var(2), <<>>)>>

\* p := &x; q := &y; *p := q       (p, q, x, y = Var(1..4))
ScenarioD ==
    <<Constraint("addr_of", Var(1), Var(3), <<>>),
      Constraint("addr_of", Var(2), Var(4), <<>>),
      Constraint("store", Var(1), Var(2), <<>>)>>

Scenarios == {ScenarioA, ScenarioB, ScenarioC, ScenarioD, TwoPending, Cyclic}

\* f := fun(a) -> (r) { r := a; }; x := &u; y := f(x), as get_all_constraints
\* lists it        (f, f_a, f_r, x, u, y = Var(1..6))
ScenarioEVars == {Var(1), Var(2), Var(3), Var(4), Var(5), Var(6)}

ScenarioE ==
    <<Constraint("assign", Var(3), Var(2), <<>>),
      cmd_fun_def(Var(1), <<Var(2)>>, <<Var(3)>>),
      Constraint("addr_of", Var(4), Var(5), <<>>),
      cmd_fun_app(Var(6), Var(1), <<Var(4)>>)>>

\* f := fun(a, b) -> (r) { }; g := fun(a) -> (r) { }; f := g
\*                 (f, g, f_a, f_b, f_r, g_a, g_r = Var(1..7))
ScenarioFVars == {Var(1), Var(2), Var(3), Var(4), Var(5), Var(6), Var(7)}

ScenarioF ==
    <<cmd_fun_def(Var(1), <<Var(3), Var(4)>>, <<Var(5)>>),
      cmd_fun_def(Var(2), <<Var(6)>>, <<Var(7)>>),
      Constraint("assign", Var(1), Var(2), <<>>)>>

\* f := fun(a) -> (r) { }; g := fun(a) -> (r) { }; f := g; g := fun(a) -> (r) { }:
\* two signatures of equal arity, a join of lambda(f) and lambda(g) deferred
\* on lambda(g), then lambda(g) typed again
\*                 (f, g, f_a, f_r, g_a, g_r = Var(1..6))
TwoSignatures ==
    <<cmd_fun_def(Var(1), <<Var(3)>>, <<Var(4)>>),
      cmd_fun_def(Var(2), <<Var(5)>>, <<Var(6)>>),
      Constraint("assign", Var(1), Var(2), <<>>),
      cmd_fun_def(Var(2), <<Var(5)>>, <<Var(6)>>)>>

\* the inputs of run_steensgaard_analysis, (variables, constraints): every
\* constraint list of up to MaxLen constraints over Vars, and every
\* permutation of a scenario
Inputs(vs, cs) ==
    \/ /\ vs = Vars
       /\ \E n \in 0..MaxLen : cs \in [1..n -> ConstraintsOver(Vars)]
    \/ /\ vs = ScenarioVars
       /\ \E sc \in Scenarios : cs \in Perms(sc)
    \/ /\ vs = ScenarioEVars
       /\ cs \in Perms(ScenarioE)
    \/ /\ vs = ScenarioFVars
       /\ cs \in Perms(ScenarioF)

\* parameter names that are not among the pre-registered variables
Formals == [k \in 1..MaxOperands |-> Var(NumVars + k)]

Prefixes(q) == {SubSeq(q, 1, k) : k \in 0..Len(q)}

\* the calls a client of Analyst can make, one per constraint record.  The
\* receiver of a fun_app is Var(1): handle_fun_app returns or raises before
\* it reads a receiver's name, only their number counts.
HandlerCalls(V) ==
    {c \in ConstraintsOver(V) :
        c.type \in {"assign", "addr_of", "deref", "allocate", "store"}}
    \cup {cmd_fun_def(l, ps, rs) :
             l \in V, ps \in Prefixes(Formals),
             rs \in Prefixes(SubSeq(SetOrder(V), 1, MaxOperands))}
    \cup {cmd_fun_app(Var(1), p, as) :
             p \in V, as \in Prefixes(SubSeq(SetOrder(V), 1, MaxOperands))}

\* the inputs of a client that hands every record to its handler
HandlerInputs(vs, cs) ==
    \/ /\ vs = Vars
       /\ \E n \in 0..MaxLen : cs \in [1..n -> HandlerCalls(Vars)]
    \/ /\ vs = ScenarioEVars
       /\ \E sc \in {ScenarioE, TwoSignatures} : cs \in Perms(sc)
    \/ /\ vs = ScenarioFVars
       /\ cs \in Perms(ScenarioF)

\* ------------------------------------------------------------------ state
VARIABLES
    program,      \* main: the SIL program, as the statements the grammar matched
    ast,          \* main: the result of parser.parse_string
    variables,    \* run_steensgaard_analysis: the pre-registered names
    constraints,  \* run_steensgaard_analysis: the constraint list
    phase,        \* "init", "dispatch", "returned"; "uf" in the store-only
                  \* runs; "source", "parsed", "constraints", "frontend" in
                  \* the runs of the frontend
    pc,           \* number of constraints handed to a handler so far
    parent,       \* analyst.uf.parent
    nodes,        \* analyst.nodes
    pending,      \* analyst.pending
    next_id,      \* analyst.next_id
    err,          \* "none", or the exception that ended the run (in the
                  \* store-only runs: the exception of the last call)
    ret           \* value returned by the last call on the stand-alone store

vars == <<program, ast, variables, constraints, phase, pc, parent, nodes,
          pending, next_id, err, ret>>

\* the Analyst object as one value, and writing one back
St ==
    [parent |-> parent, nodes |-> nodes, pending |-> pending,
     next_id |-> next_id, err |-> err]

Commit(r) ==
    /\ parent' = r.parent
    /\ nodes' = r.nodes
    /\ pending' = r.pending
    /\ next_id' = r.next_id
    /\ err' = r.err

\* "for v in variables: analyst.new_type(v)"
RECURSIVE register(_, _)
register(s, vs) ==
    IF vs = <<>> THEN s ELSE register(new_type(s, Head(vs)), Tail(vs))

\* the match statement of run_steensgaard_analysis on one constraint
dispatch(s, c) ==
    CASE c.type = "assign" -> handle_assign(s, c.lhs, c.rhs)
      [] c.type = "addr_of" -> handle_addr_of(s, c.lhs, c.rhs)
      [] c.type = "deref" -> handle_deref(s, c.lhs, c.rhs)
      [] c.type = "op" -> handle_op(s, c.lhs, c.operand_variables)
      [] c.type = "allocate" -> handle_allocate(s, c.lhs)
      [] c.type = "store" -> handle_store(s, c.lhs, c.rhs)
      [] OTHER -> s

\* the whole loop over a constraint list; an exception ends it
RECURSIVE run(_, _)
run(s, cs) ==
    IF cs = <<>> \/ s.err # "none" THEN s
    ELSE run(dispatch(s, Head(cs)), Tail(cs))

\* -------------------------------------------------------------- the solver
Init ==
    /\ program = <<>>
    /\ ast = <<>>
    /\ Inputs(variables, constraints)
    /\ phase = "init"
    /\ pc = 0
    /\ parent = Analyst.parent
    /\ nodes = Analyst.nodes
    /\ pending = Analyst.pending
    /\ next_id = Analyst.next_id
    /\ err = Analyst.err
    /\ ret = None

Register ==
    /\ phase = "init"
    /\ Commit(register(St, SetOrder(variables)))
    /\ phase' = "dispatch"
    /\ UNCHANGED <<program, ast, variables, constraints, pc, ret>>

\* the loop is at a constraint of the given type
At(kind) ==
    /\ phase = "dispatch"
    /\ err = "none"
    /\ pc < Len(constraints)
    /\ constraints[pc + 1].type = kind

Assign ==
    /\ At("assign")
    /\ Commit(handle_assign(St, constraints[pc + 1].lhs,
                            constraints[pc + 1].rhs))
    /\ pc' = pc + 1
    /\ UNCHANGED <<program, ast, variables, constraints, phase, ret>>

AddrOf ==
    /\ At("addr_of")
    /\ Commit(handle_addr_of(St, constraints[pc + 1].lhs,
                             constraints[pc + 1].rhs))
    /\ pc' = pc + 1
    /\ UNCHANGED <<program, ast, variables, constraints, phase, ret>>

Deref ==
    /\ At("deref")
    /\ Commit(handle_deref(St, constraints[pc + 1].lhs,
                           constraints[pc + 1].rhs))
    /\ pc' = pc + 1
    /\ UNCHANGED <<program, ast, variables, constraints, phase, ret>>

Op ==
    /\ At("op")
    /\ Commit(handle_op(St, constraints[pc + 1].lhs,
                        constraints[pc + 1].operand_variables))
    /\ pc' = pc + 1
    /\ UNCHANGED <<program, ast, variables, constraints, phase, ret>>

Allocate ==
    /\ At("allocate")
    /\ Commit(handle_allocate(St, constraints[pc + 1].lhs))
    /\ pc' = pc + 1
    /\ UNCHANGED <<program, ast, variables, constraints, phase, ret>>

Store ==
    /\ At("store")
    /\ Commit(handle_store(St, constraints[pc + 1].lhs,
                           constraints[pc + 1].rhs))
    /\ pc' = pc + 1
    /\ UNCHANGED <<program, ast, variables, constraints, phase, ret>>

Unrecognized ==
    /\ phase = "dispatch"
    /\ err = "none"
    /\ pc < Len(constraints)
    /\ constraints[pc + 1].type \notin
          {"assign", "addr_of", "deref", "op", "allocate", "store"}
    /\ pc' = pc + 1
    /\ UNCHANGED <<program, ast, variables, constraints, phase, parent, nodes,
                   pending, next_id, err, ret>>

Return ==
    /\ phase = "dispatch"
    /\ err = "none"
    /\ pc = Len(constraints)
    /\ phase' = "returned"
    /\ UNCHANGED <<program, ast, variables, constraints, pc, parent, nodes,
                   pending, next_id, err, ret>>

Next ==
    \/ Register
    \/ Assign
    \/ AddrOf
    \/ Deref
    \/ Op
    \/ Allocate
    \/ Store
    \/ Unrecognized
    \/ Return

Spec == Init /\ [][Next]_vars

\* ------------------------------------ the handlers of Analyst, called directly
\* run_steensgaard_analysis has no case for fun_def and fun_app; here a client
\* of the class registers the variables and hands every record to its handler,
\* handle_fun_def and handle_fun_app included
InitHandlers ==
    /\ program = <<>>
    /\ ast = <<>>
    /\ HandlerInputs(variables, constraints)
    /\ phase = "init"
    /\ pc = 0
    /\ parent = Analyst.parent
    /\ nodes = Analyst.nodes
    /\ pending = Analyst.pending
    /\ next_id = Analyst.next_id
    /\ err = Analyst.err
    /\ ret = None

FunDef ==
    /\ At("fun_def")
    /\ Commit(handle_fun_def(St, constraints[pc + 1].lhs,
                             constraints[pc + 1].params,
                             constraints[pc + 1].returns))
    /\ pc' = pc + 1
    /\ UNCHANGED <<program, ast, variables, constraints, phase, ret>>

FunApp ==
    /\ At("fun_app")
    /\ Commit(handle_fun_app(St, <<constraints[pc + 1].lhs>>,
                             constraints[pc + 1].fun_name,
                             constraints[pc + 1].arg_variables))
    /\ pc' = pc + 1
    /\ UNCHANGED <<program, ast, variables, constraints, phase, ret>>

NextHandlers ==
    \/ Register
    \/ Assign
    \/ AddrOf
    \/ Deref
    \/ Allocate
    \/ Store
    \/ FunDef
    \/ FunApp
    \/ Return

SpecHandlers == InitHandlers /\ [][NextHandlers]_vars

\* ------------------------------------------- the stand-alone union-find store
InitUF ==
    /\ program = <<>>
    /\ ast = <<>>
    /\ variables = {}
    /\ constraints = <<>>
    /\ phase = "uf"
    /\ pc = 0
    /\ parent = <<>>
    /\ nodes = <<>>
    /\ pending = <<>>
    /\ next_id = 0
    /\ err = "none"
    /\ ret = None

UFAdd ==
    /\ phase = "uf"
    /\ \E item \in Items :
          /\ parent' = add(parent, item)
          /\ ret' = None
          /\ err' = "none"
    /\ UNCHANGED <<program, ast, variables, constraints, phase, pc, nodes,
                   pending, next_id>>

UFFind ==
    /\ phase = "uf"
    /\ \E item \in Items :
          LET r == find_call(parent, item)
          IN /\ parent' = r.parent
             /\ ret' = r.ret
             /\ err' = r.err
    /\ UNCHANGED <<program, ast, variables, constraints, phase, pc, nodes,
                   pending, next_id>>

UFUnion ==
    /\ phase = "uf"
    /\ \E item1 \in Items, item2 \in Items :
          LET r == union_call(parent, item1, item2)
          IN /\ parent' = r.parent
             /\ ret' = r.ret
             /\ err' = r.err
    /\ UNCHANGED <<program, ast, variables, constraints, phase, pc, nodes,
                   pending, next_id>>

NextUF ==
    \/ UFAdd
    \/ UFFind
    \/ UFUnion

SpecUF == InitUF /\ [][NextUF]_vars

\* ------------------------------------------------- the frontend of main
InitFrontend ==
    /\ program \in Programs
    /\ ast = <<>>
    /\ variables = {}
    /\ constraints = <<>>
    /\ phase = "source"
    /\ pc = 0
    /\ parent = <<>>
    /\ nodes = <<>>
    /\ pending = <<>>
    /\ next_id = 0
    /\ err = "none"
    /\ ret = None

\* parse_program: ast = parser.parse_string(program)
ParseString ==
    /\ phase = "source"
    /\ ast' = parse_string(program)
    /\ phase' = "parsed"
    /\ UNCHANGED <<program, variables, constraints, pc, parent, nodes,
                   pending, next_id, err, ret>>

\* parse_program: constraints = get_all_constraints(ast)
GetAllConstraints ==
    /\ phase = "parsed"
    /\ constraints' = get_all_constraints(ast)
    /\ phase' = "constraints"
    /\ UNCHANGED <<program, ast, variables, pc, parent, nodes, pending,
                   next_id, err, ret>>

\* main: all_variables = get_all_variables(ast)
GetAllVariables ==
    /\ phase = "constraints"
    /\ variables' = get_all_variables(ast)
    /\ phase' = "frontend"
    /\ UNCHANGED <<program, ast, constraints, pc, parent, nodes, pending,
                   next_id, err, ret>>

NextFrontend ==
    \/ ParseString
    \/ GetAllConstraints
    \/ GetAllVariables

SpecFrontend == InitFrontend /\ [][NextFrontend]_vars

\* ------------------------------------------------------ derived notions
\* the run has ended: the loop returned, or an exception left it
Finished == phase = "returned" \/ err # "none"

\* the class of the tau field of the record of a's class representative
TauClass(a) ==
    LET t == nodes[find(parent, a)].tau
    IN IF t = None THEN None ELSE find(parent, t)

\* what a run hands back: whether it raised and, if it returned, the
\* "shares an ECR with" relation on the variable names
Outcome(s, V) ==
    [raised |-> s.err # "none",
     relation |-> IF s.err # "none" THEN {}
                  ELSE {pr \in V \X V :
                           find(s.parent, pr[1]) = find(s.parent, pr[2])}]

\* ----------------------------------------------------------------- claims

\* C1: order independence.  When the run over the constraint list has ended,
\* the run over every permutation of the list (same pre-registered
\* variables) ends with the same final "shares an ECR with" relation on the
\* variable names.
OrderIndependence ==
    Finished =>
        \A p \in Perms(constraints) :
            Outcome(run(register(Analyst, SetOrder(variables)), p), variables)
                = Outcome(St, variables)

\* C2: a deferred conditional join is never lost.  pending[e2] records every
\* e1 whose cjoin(e1, e2) was deferred (entries are only ever added); in
\* every state in which the record of e2's class representative is
\* non-bottom, e1 and e2 are in the same class.
DeferredJoinFires ==
    \A e2 \in DOMAIN pending :
        \A e1 \in pending[e2] \cap DOMAIN parent :
            ~is_bottom(nodes[find(parent, e2)])
                => find(parent, e1) = find(parent, e2)

\* C3: termination.  No handler drives the recursion of join (through
\* unify_tau and the draining of pending sets) beyond the cut-off depth:
\* every handler ends, by returning or by raising another exception.
JoinRecursionFinite == err # "RecursionError"

\* C3 witness: join was called while draining the pending set of a cell
\* whose tau chain is cyclic (p := *p made tau(p) point to itself), and ended
JoinOnCyclicChain ==
    /\ constraints = Cyclic
    /\ pc = 3
    /\ Finished
    /\ \E a \in DOMAIN nodes : nodes[a].tau = a

\* C4: monotonic merging.  Two IDs with the same representative have the
\* same representative after every further step; classes never split.
MonotonicMerging ==
    [][\A a \in DOMAIN parent : \A b \in DOMAIN parent :
          find(parent, a) = find(parent, b)
              => find(parent', a) = find(parent', b)]_vars

\* C4 witness: a class of three items, so a merged pair has gone through a
\* further union
MergedPairSurvived ==
    \E a \in DOMAIN parent, b \in DOMAIN parent, c \in DOMAIN parent :
        /\ a # b /\ b # c /\ a # c
        /\ find(parent, a) = find(parent, b)
        /\ find(parent, b) = find(parent, c)

StructuralCongruence ==
    \A a \in DOMAIN parent : \A b \in DOMAIN parent :
        find(parent, a) = find(parent, b) =>
            /\ (nodes[a].tau # None /\ nodes[b].tau # None)
                  => find(parent, nodes[a].tau) = find(parent, nodes[b].tau)
            /\ (nodes[a].lam # None /\ nodes[b].lam # None)
                  => find(parent, nodes[a].lam) = find(parent, nodes[b].lam)

\* C7: address-of.  After x := &y was handed to its handler, the handler
\* has completed and find(tau(x)) = find(y).
AddrOfPointsTo ==
    (pc >= 1 /\ constraints[pc].type = "addr_of") =>
        /\ err = "none"
        /\ TauClass(constraints[pc].lhs) = find(parent, constraints[pc].rhs)

\* C8: scenario A.  After p := &x; q := &y; p := q the run has completed,
\* p and q share a class and find(tau(p)) = find(tau(q)) = find(x) = find(y).
ScenarioAResult ==
    (constraints = ScenarioA /\ Finished) =>
        /\ err = "none"
        /\ find(parent, Var(1)) = find(parent, Var(2))
        /\ TauClass(Var(1)) = TauClass(Var(2))
        /\ TauClass(Var(2)) = find(parent, Var(3))
        /\ find(parent, Var(3)) = find(parent, Var(4))

\* C9: scenario C.  After a := b; c := &d; a := c the run has completed and
\* find(tau(a)) = find(tau(b)) = find(tau(c)) = find(d).
ScenarioCResult ==
    (constraints = ScenarioC /\ Finished) =>
        /\ err = "none"
        /\ TauClass(Var(1)) = TauClass(Var(2))
        /\ TauClass(Var(2)) = TauClass(Var(3))
        /\ TauClass(Var(3)) = find(parent, Var(4))

\* C10: scenario B.  After p := allocate(); q := allocate(); p := q; x := *p
\* the run has completed, p and q share a class, the two allocation sites
\* have collapsed (find(tau(p)) = find(tau(q))) and x shares a class with
\* that cell.
ScenarioBResult ==
    (constraints = ScenarioB /\ Finished) =>
        /\ err = "none"
        /\ find(parent, Var(1)) = find(parent, Var(2))
        /\ TauClass(Var(1)) # None
        /\ TauClass(Var(1)) = TauClass(Var(2))
        /\ find(parent, Var(3)) = TauClass(Var(1))

\* C11: scenario D.  After p := &x; q := &y; *p := q the run has completed
\* and find(tau(x)) = find(tau(q)) = find(y).
ScenarioDResult ==
    (constraints = ScenarioD /\ Finished) =>
        /\ err = "none"
        /\ TauClass(Var(3)) = TauClass(Var(2))
        /\ TauClass(Var(2)) = find(parent, Var(4))

\* the slot lists of lambda(a): the lam_args and lam_rets of the record of
\* the class of the lam field of a's class representative
LamArgs(a) ==
    LET l == nodes[find(parent, a)].lam
    IN IF l = None THEN <<>> ELSE nodes[find(parent, l)].lam_args

LamRets(a) ==
    LET l == nodes[find(parent, a)].lam
    IN IF l = None THEN <<>> ELSE nodes[find(parent, l)].lam_rets

\* C12: scenario E.  After the constraints of f := fun(a) -> (r) { r := a; };
\* x := &u; y := f(x) the run has completed, lambda(f) has one parameter
\* slot and one return slot, the parameter slot is in the class of x and the
\* return slot in the class of y, and find(tau(y)) = find(tau(x)) = find(u).
ScenarioEResult ==
    (constraints = ScenarioE /\ Finished) =>
        /\ err = "none"
        /\ Len(LamArgs(Var(1))) = 1
        /\ Len(LamRets(Var(1))) = 1
        /\ find(parent, LamArgs(Var(1))[1]) = find(parent, Var(4))
        /\ find(parent, LamRets(Var(1))[1]) = find(parent, Var(6))
        /\ TauClass(Var(6)) = TauClass(Var(4))
        /\ TauClass(Var(4)) = find(parent, Var(5))

\* C13: scenario F.  The run over f := fun(a, b) -> (r); g := fun(a) -> (r);
\* f := g ends in an ArityMismatch error.
ScenarioFArityMismatch ==
    (constraints = ScenarioF /\ Finished) => err = "ArityMismatch"

\* C14: arity-matched unification.  Two IDs in the same class whose own
\* records carry signatures of equal arity have every pair of corresponding
\* parameter slots and every pair of corresponding return slots in the same
\* class.
LambdaSlotsMerged ==
    \A a \in DOMAIN parent : \A b \in DOMAIN parent :
        (/\ find(parent, a) = find(parent, b)
         /\ Len(nodes[a].lam_args) = Len(nodes[b].lam_args)
         /\ Len(nodes[a].lam_rets) = Len(nodes[b].lam_rets))
        => /\ \A i \in 1..Len(nodes[a].lam_args) :
                 find(parent, nodes[a].lam_args[i])
                     = find(parent, nodes[b].lam_args[i])
           /\ \A i \in 1..Len(nodes[a].lam_rets) :
                 find(parent, nodes[a].lam_rets[i])
                     = find(parent, nodes[b].lam_rets[i])

\* the solver state as the claims compare it: the equivalence classes, the
\* structural fields, the pending sets, the minted IDs and the exception
SolverState(s) ==
    [classes |-> get_sets(s.parent), nodes |-> s.nodes,
     pending |-> s.pending, ids |-> DOMAIN s.parent, err |-> s.err]

\* C15: idempotence.  In every state in which the loop can take a
\* constraint, and for every constraint over the registered variables whose
\* handler completes there, handling it a second time right away completes
\* and leaves the same solver state as handling it once.
Idempotence ==
    (phase = "dispatch" /\ err = "none") =>
        \A c \in ConstraintsOver(variables) :
            LET once == dispatch(St, c)
                twice == dispatch(once, c)
            IN once.err = "none" => SolverState(twice) = SolverState(once)

\* C16: structural fields are never reset.  For every registered ID, if the
\* record of its class representative has a non-bottom tau (respectively
\* lambda) before a step, the record of its class representative has a
\* non-bottom tau (respectively lambda) after it.
FieldsNeverReset ==
    [][\A a \in DOMAIN parent :
          /\ nodes[find(parent, a)].tau # None
                => nodes'[find(parent', a)].tau # None
          /\ nodes[find(parent, a)].lam # None
                => nodes'[find(parent', a)].lam # None]_vars

\* a is an ID registered in the disjoint-set store, in nodes and in pending
Registered(a) ==
    a \in DOMAIN parent /\ a \in DOMAIN nodes /\ a \in DOMAIN pending

\* C17: reference validity.  After every constraint whose handler completed,
\* every non-bottom tau and lam field and every element of lam_args and
\* lam_rets of every record is registered in the disjoint-set store, in
\* nodes and in pending.
ReferenceValidity ==
    err = "none" =>
        \A a \in DOMAIN nodes :
            /\ nodes[a].tau # None => Registered(nodes[a].tau)
            /\ nodes[a].lam # None => Registered(nodes[a].lam)
            /\ \A i \in 1..Len(nodes[a].lam_args) :
                  Registered(nodes[a].lam_args[i])
            /\ \A i \in 1..Len(nodes[a].lam_rets) :
                  Registered(nodes[a].lam_rets[i])

\* C17 witness: handlers completed and left a record with a tau target, a
\* record with a lam target, and a signature whose parameter slot is a name
\* that was not among the pre-registered variables
SignatureOverNewName ==
    /\ err = "none"
    /\ pc >= 1
    /\ \E a \in DOMAIN nodes : nodes[a].tau # None
    /\ \E a \in DOMAIN nodes :
          /\ nodes[a].lam # None
          /\ nodes[nodes[a].lam].lam_args # <<>>
          /\ nodes[nodes[a].lam].lam_args[1] \notin variables

\* C18: union returns the representative.  On every store a run can build
\* and for all registered a, b: union(a, b) returns the value that find(a)
\* and find(b) report afterwards, a registered ID; union(a, a) leaves the
\* store as it is and returns find(a).
UnionReturnsRepresentative ==
    \A a \in DOMAIN parent : \A b \in DOMAIN parent :
        LET r == union_call(parent, a, b)
        IN /\ r.err = "none"
           /\ r.ret \in DOMAIN r.parent
           /\ r.ret = find(r.parent, a)
           /\ r.ret = find(r.parent, b)
           /\ a = b => (r.parent = parent /\ r.ret = find(parent, a))

\* the class of c under the parent map par
ClassOf(par, c) == {d \in DOMAIN par : find(par, d) = find(par, c)}

\* C19: effect of union on the partition.  On every store a run can build
\* and for all registered a, b: after union(a, b), find(a) = find(b); the
\* number of classes is one less if a and b were in different classes and
\* the same otherwise; the class of every ID outside the classes of a and b
\* is as before.
UnionMergesTwoClasses ==
    \A a \in DOMAIN parent : \A b \in DOMAIN parent :
        LET r == union_call(parent, a, b)
            drop == IF find(parent, a) # find(parent, b) THEN 1 ELSE 0
        IN /\ find(r.parent, a) = find(r.parent, b)
           /\ Cardinality(get_sets(r.parent))
                 = Cardinality(get_sets(parent)) - drop
           /\ \A c \in DOMAIN parent :
                 c \notin ClassOf(parent, a) \cup ClassOf(parent, b)
                     => ClassOf(r.parent, c) = ClassOf(parent, c)

\* C19 witness: a union call has merged two classes that both had more than
\* one member (a non-root item sits two links below its representative)
\* while another class stayed apart
UnionOfTwoClasses ==
    /\ phase = "uf"
    /\ \E a \in DOMAIN parent :
          /\ parent[a] # a
          /\ parent[parent[a]] # parent[a]
    /\ \E a \in DOMAIN parent, c \in DOMAIN parent :
          find(parent, a) # find(parent, c)

\* C20 as stated: on every store a run can build, find on an item that was
\* never added, and union with such an item on either side, ends in an
\* UnknownId error and leaves the store unchanged.
UnknownIdRaisesUnknownId ==
    \A item \in Items \ DOMAIN parent :
        /\ find_call(parent, item).err = "UnknownId"
        /\ find_call(parent, item).parent = parent
        /\ \A other \in Items :
              /\ union_call(parent, item, other).err = "UnknownId"
              /\ union_call(parent, item, other).parent = parent
              /\ union_call(parent, other, item).err = "UnknownId"
              /\ union_call(parent, other, item).parent = parent

\* C20 amended: on every store a run can build, find on an item that was
\* never added, and union with such an item on either side, ends in Python's
\* KeyError and leaves the store unchanged.
UnknownIdRaisesKeyError ==
    \A item \in Items \ DOMAIN parent :
        /\ find_call(parent, item).err = "KeyError"
        /\ find_call(parent, item).parent = parent
        /\ \A other \in Items :
              /\ union_call(parent, item, other).err = "KeyError"
              /\ union_call(parent, item, other).parent = parent
              /\ union_call(parent, other, item).err = "KeyError"
              /\ union_call(parent, other, item).parent = parent

\* C20 witness: the last call on a store that holds merged items named an
\* item that was never added and raised
CallOnUnknownItemRaised ==
    /\ phase = "uf"
    /\ err = "KeyError"
    /\ Items \ DOMAIN parent # {}
    /\ \E a \in DOMAIN parent : parent[a] # a

\* the items on the parent path from item up to its root, both included
RECURSIVE path(_, _)
path(par, item) ==
    IF par[item] = item THEN {item} ELSE {item} \cup path(par, par[item])

\* C21: path compression.  On every store a run can build and for every
\* registered item x: after find(x) has returned the root r, x and every
\* item on the former parent path from x to r have r as their direct parent,
\* and the partition into classes is as before.
FindCompressesPath ==
    \A item \in DOMAIN parent :
        LET r == find_call(parent, item)
        IN /\ r.err = "none"
           /\ \A a \in path(parent, item) : r.parent[a] = r.ret
           /\ get_sets(r.parent) = get_sets(parent)

\* C22: add.  On every store a run can build and for every item x: if x is
\* not present, add(x) makes x present as the singleton class {x} with
\* find(x) = x and leaves every other entry and class as it was; if x is
\* present, add(x) changes nothing, also when x sits below another root.
AddIsSingletonOrNoOp ==
    \A item \in Items :
        LET after == add(parent, item)
        IN IF item \notin DOMAIN parent
           THEN /\ DOMAIN after = DOMAIN parent \cup {item}
                /\ find(after, item) = item
                /\ ClassOf(after, item) = {item}
                /\ \A c \in DOMAIN parent : after[c] = parent[c]
                /\ get_sets(after) = get_sets(parent) \cup {{item}}
           ELSE after = parent

\* C22 witness: add calls have built a store in which one item has been
\* merged below another root while a further item is still to be added
AddOnMergedAndNewItem ==
    /\ phase = "uf"
    /\ \E a \in DOMAIN parent : parent[a] # a
    /\ Items \ DOMAIN parent # {}

\* C23: get_sets is the partition.  On every store that add and union calls
\* can build, whatever the order in which the items were added: every added
\* item appears in exactly one member list and exactly once in it, the lists
\* hold added items only, no list is empty, and two items are in the same
\* list if and only if find gives them the same representative.
GetSetsIsPartition ==
    \A items \in KeyOrders(DOMAIN parent) :
        LET lists == get_sets_lists(parent, items)
            Members(k) == {lists[k][j] : j \in 1..Len(lists[k])}
        IN /\ \A a \in DOMAIN parent :
                 Cardinality({<<k, j>> \in (1..Len(lists)) \X (1..NumItems) :
                                 j <= Len(lists[k]) /\ lists[k][j] = a}) = 1
           /\ \A k \in 1..Len(lists) :
                 /\ lists[k] # <<>>
                 /\ Members(k) \subseteq DOMAIN parent
           /\ \A a \in DOMAIN parent : \A b \in DOMAIN parent :
                 (\E k \in 1..Len(lists) : {a, b} \subseteq Members(k))
                     <=> find(parent, a) = find(parent, b)

\* C23 witness: add and union calls have built a store with an item two
\* links below its representative and a second class
GetSetsOnChainAndOtherClass ==
    /\ phase = "uf"
    /\ \E a \in DOMAIN parent :
          /\ parent[a] # a
          /\ parent[parent[a]] # parent[a]
          /\ Len(get_sets_lists(parent, SetOrder(DOMAIN parent))) = 2

\* C24: the dispatcher never silently skips.  Every step of the loop over a
\* constraint of one of the eight kinds leaves the solver in the state the
\* kind's handler produces from that constraint, and every step over a
\* constraint with any other tag ends in an error.
DispatcherNeverSkips ==
    [][(phase = "dispatch" /\ err = "none" /\ pc < Len(constraints)
           /\ pc' = pc + 1)
       => LET c == constraints[pc + 1]
          IN CASE c.type = "assign" ->
                    St' = handle_assign(St, c.lhs, c.rhs)
               [] c.type = "addr_of" ->
                    St' = handle_addr_of(St, c.lhs, c.rhs)
               [] c.type = "deref" ->
                    St' = handle_deref(St, c.lhs, c.rhs)
               [] c.type = "store" ->
                    St' = handle_store(St, c.lhs, c.rhs)
               [] c.type = "op" ->
                    St' = handle_op(St, c.lhs, c.operand_variables)
               [] c.type = "allocate" ->
                    St' = handle_allocate(St, c.lhs)
               [] c.type = "fun_def" ->
                    St' = handle_fun_def(St, c.lhs, c.params, c.returns)
               [] c.type = "fun_app" ->
                    St' = handle_fun_app(St, <<c.lhs>>, c.fun_name,
                                         c.arg_variables)
               [] OTHER -> err' # "none"]_vars

\* create_graph: the networkx DiGraph as its node set and its edge set.  A
\* node is tuple(set) for each member list of uf.get_sets(); the keys of
\* uf.parent come in insertion order, which is SetOrder here (the variables
\* are registered in that order and fresh IDs ascend).  Every record of the
\* map with a tau adds one edge, from the list holding its uf_id to the list
\* holding its tau; add_edge also adds its end points as nodes.
create_graph(uf, map) ==
    LET sets == get_sets_lists(uf, SetOrder(DOMAIN uf))
        Holding(a, default) ==
            LET at == {k \in 1..Len(sets) :
                          \E j \in 1..Len(sets[k]) : sets[k][j] = a}
            IN IF at = {} THEN default
               ELSE sets[CHOOSE k \in at : \A m \in at : m <= k]
        edges == {<<Holding(map[key].uf_id, <<None>>),
                    Holding(map[key].tau, <<None, None>>)>> :
                     key \in {k \in DOMAIN map : map[k].tau # None}}
    IN [nodes |-> {sets[k] : k \in 1..Len(sets)}
                     \cup {e[1] : e \in edges} \cup {e[2] : e \in edges},
        edges |-> edges]

\* C25: shape-graph export.  On every solver state a run can build,
\* create_graph has exactly one node per equivalence class, an edge from
\* class C to class D exactly when the record of C's representative has a
\* tau whose class is D, and so at most one outgoing edge per node.
ShapeGraphFromRepresentatives ==
    LET G == create_graph(parent, nodes)
        Members(C) == {C[j] : j \in 1..Len(C)}
    IN /\ {Members(C) : C \in G.nodes} = get_sets(parent)
       /\ Cardinality(G.nodes) = Cardinality(get_sets(parent))
       /\ \A C \in G.nodes : \A D \in G.nodes :
             <<C, D>> \in G.edges
                <=> LET r == find(parent, C[1])
                    IN /\ nodes[r].tau # None
                       /\ nodes[r].tau \in Members(D)
       /\ \A C \in G.nodes :
             Cardinality({D \in G.nodes : <<C, D>> \in G.edges}) <= 1

\* C26: pre-registration completeness.  After the frontend has run on a
\* program, every name in every constraint that get_all_constraints
\* returned (lhs, rhs, operand_variables, fun_name, arg_variables, params,
\* returns, renamed or not) is in the set get_all_variables returned.
PreRegistrationComplete ==
    phase = "frontend" =>
        \A k \in 1..Len(constraints) :
            LET c == constraints[k]
                Name(key) == IF key \in DOMAIN c THEN {c[key]} ELSE {}
                Names(key) == IF key \in DOMAIN c THEN Elements(c[key]) ELSE {}
            IN Name("lhs") \cup Name("rhs") \cup Name("fun_name")
                  \cup Names("operand_variables") \cup Names("arg_variables")
                  \cup Names("params") \cup Names("returns")
                      \subseteq variables

\* C26 witness: the frontend has run on the definition of a function whose
\* body applies a function: the constraints hold the application with its
\* renamed target and the definition with its renamed parameter
FunctionBodyPreRegistered ==
    /\ phase = "frontend"
    /\ \E i \in 1..Len(constraints), j \in 1..Len(constraints) :
          /\ constraints[i].type = "fun_app"
          /\ constraints[i].lhs = <<"f", "_", "x">>
          /\ constraints[i].arg_variables # <<>>
          /\ constraints[j].type = "fun_def"
          /\ constraints[j].params = <<<<"f", "_", "a">>>>

\* C27: frontend filtering.  The list get_all_constraints returned holds no
\* if, while or skip record, and no name in it (lhs, rhs, operand_variables,
\* arg_variables) stands for a numeric literal.  The identifiers of the
\* programs hold no digit, so a name stands for a literal exactly when it
\* ends in a digit.
FrontendFiltering ==
    phase \in {"constraints", "frontend"} =>
        \A k \in 1..Len(constraints) :
            LET c == constraints[k]
                Name(key) == IF key \in DOMAIN c THEN {c[key]} ELSE {}
                Names(key) == IF key \in DOMAIN c THEN Elements(c[key]) ELSE {}
            IN /\ c.type \notin {"if", "while", "skip"}
               /\ \A n \in Name("lhs") \cup Name("rhs")
                              \cup Names("operand_variables")
                              \cup Names("arg_variables") :
                     n[Len(n)] \notin Nums

\* the variables occurring in the statements of a list and, through then,
\* else and body, in the statements nested in them: targets, identifier
\* right-hand sides, operand variables, and the function name and argument
\* variables of applications (the params and returns of a definition are
\* left out)
RECURSIVE VariablesIn(_)
VariablesIn(stmt_list) ==
    UNION {LET stmt == stmt_list[k]
               Name(key) == IF key \in DOMAIN stmt THEN {stmt[key]} ELSE {}
               Names(key) ==
                   IF key \in DOMAIN stmt THEN Elements(stmt[key]) ELSE {}
               Nested(key) ==
                   IF key \in DOMAIN stmt THEN VariablesIn(stmt[key]) ELSE {}
           IN Name("lhs") \cup {n \in Name("rhs") : is_identifier(n)}
                 \cup Name("fun_name") \cup Names("operand_variables")
                 \cup Names("arg_variables")
                 \cup Nested("then") \cup Nested("else") \cup Nested("body") :
              k \in 1..Len(stmt_list)}

\* every variable in the body of every function definition of the list, at
\* any depth, starts with the name of the definition and "_"
RECURSIVE BodiesRenamed(_)
BodiesRenamed(stmt_list) ==
    \A k \in 1..Len(stmt_list) :
        LET stmt == stmt_list[k]
            prefix == stmt.lhs \o <<"_">>
        IN /\ stmt.type = "fun_def" =>
                 /\ \A n \in VariablesIn(stmt.body) :
                       /\ Len(n) > Len(prefix)
                       /\ SubSeq(n, 1, Len(prefix)) = prefix
                 /\ BodiesRenamed(stmt.body)
           /\ stmt.type = "if" =>
                 BodiesRenamed(stmt.then) /\ BodiesRenamed(stmt.else)
           /\ stmt.type = "while" => BodiesRenamed(stmt.body)

\* the variables of the statements of a list that are in no function body
RECURSIVE VariablesOutside(_)
VariablesOutside(stmt_list) ==
    UNION {LET stmt == stmt_list[k]
           IN CASE stmt.type = "fun_def" -> {stmt.lhs}
                [] stmt.type = "if" ->
                     VariablesOutside(stmt.then)
                         \cup VariablesOutside(stmt.else)
                [] stmt.type = "while" -> VariablesOutside(stmt.body)
                [] OTHER -> VariablesIn(<<stmt>>) :
              k \in 1..Len(stmt_list)}

\* C28: function-body renaming.  In the parsed program, every variable of a
\* statement inside a function body - statements nested in if and while
\* blocks of the body, function names and arguments of applications
\* included - carries the prefix <funname>_, and the variables outside any
\* function body are as written (the identifiers of the programs hold
\* no "_").
FunctionBodyRenaming ==
    phase \in {"parsed", "constraints", "frontend"} =>
        /\ BodiesRenamed(ast)
        /\ \A n \in VariablesOutside(ast) : "_" \notin Elements(n)

\* C29: join on one class.  On every solver state a run can build without
\* an exception, join(e1, e2) on two IDs of the same class returns with the
\* solver state as it was: no record, pending set or class changed, no ID
\* minted, no exception.
JoinOnSameClassReturns ==
    (phase \in {"dispatch", "returned"} /\ err = "none") =>
        \A e1 \in DOMAIN parent : \A e2 \in DOMAIN parent :
            find(parent, e1) = find(parent, e2) => join(St, e1, e2, 0) = St

\* C30: deref and store branch on the representative's record.  On every
\* solver state a run can build, and for all variables x and y: when the
\* record of the representative of the pointer's tau (tau of y for
\* x := *y, tau of x for *x := y) is not bottom, the handler takes the
\* cjoin branch: afterwards every record has the structural fields it had
\* once the two taus were read, apart from a tau that get_tau filled with a
\* newly minted ID.
DerefStoreBranchOnRepresentative ==
    phase \in {"dispatch", "returned"} =>
        \A x \in variables : \A y \in variables :
            LET s == [St EXCEPT !.err = "none"]
                s1 == get_tau(s, ecr(s, x))
                s2 == get_tau(s1, ecr(s1, y))
                Kept(after) ==
                    \A a \in DOMAIN s2.nodes :
                        \/ after.nodes[a] = s2.nodes[a]
                        \/ /\ s2.nodes[a].tau = None
                           /\ after.nodes[a].tau >= s2.next_id
                           /\ after.nodes[a] =
                                 [s2.nodes[a] EXCEPT !.tau = after.nodes[a].tau]
                NonBottom(tau) == ~is_bottom(s2.nodes[find(s2.parent, tau)])
            IN /\ NonBottom(s2.nodes[ecr(s2, y)].tau)
                     => Kept(handle_deref(s, x, y))
               /\ NonBottom(s2.nodes[ecr(s2, x)].tau)
                     => Kept(handle_store(s, x, y))

\* C37: direction of union.  On every store a run can build and for all
\* registered a, b of different classes: after union(a, b) the parent entry
\* of b's former root is a's root, every other parent entry is as before,
\* and a's root is the representative of every member of the two classes.
UnionKeepsFirstRoot ==
    \A a \in DOMAIN parent : \A b \in DOMAIN parent :
        LET root1 == find(parent, a)
            root2 == find(parent, b)
            r == union_call(parent, a, b)
        IN root1 # root2 =>
              /\ r.err = "none"
              /\ r.parent[root2] = root1
              /\ \A c \in DOMAIN parent \ {root2} : r.parent[c] = parent[c]
              /\ DOMAIN r.parent = DOMAIN parent
              /\ \A c \in ClassOf(parent, a) \cup ClassOf(parent, b) :
                    find(r.parent, c) = root1

\* C37 witness: union calls have built two classes that each have a member
\* below the root, so a union of the two members has both roots to choose
\* from
TwoClassesWithNonRoots ==
    /\ phase = "uf"
    /\ \E a \in DOMAIN parent, b \in DOMAIN parent :
          /\ parent[a] # a
          /\ parent[b] # b
          /\ find(parent, a) # find(parent, b)

\* the structural fields of a record
Structure(t) ==
    [tau |-> t.tau, lam |-> t.lam, lam_args |-> t.lam_args,
     lam_rets |-> t.lam_rets]

\* C31: join with exactly one non-bottom side.  For all typed IDs e1, e2 of
\* different classes where exactly one of the two representatives' records
\* is bottom: join(e1, e2) returns normally, the record of the merged class's
\* representative then carries the structural fields the non-bottom record
\* had, and every ID that was pending on the bottom side's representative is
\* in the merged class.
JoinOneSideBottom ==
    \A e1 \in DOMAIN nodes : \A e2 \in DOMAIN nodes :
        LET s0 == [St EXCEPT !.err = "none"]
            r1 == find(parent, e1)
            r2 == find(parent, e2)
            b1 == is_bottom(nodes[r1])
            b2 == is_bottom(nodes[r2])
            full == IF b1 THEN r2 ELSE r1
            bot == IF b1 THEN r1 ELSE r2
            s1 == join(s0, e1, e2, 0)
        IN (r1 # r2 /\ b1 # b2) =>
              /\ s1.err = "none"
              /\ Structure(s1.nodes[find(s1.parent, e1)])
                    = Structure(nodes[full])
              /\ \A x \in pending[bot] :
                    find(s1.parent, x) = find(s1.parent, e1)

\* C32: cjoin decides on the representative's record.  For all typed IDs
\* e1, e2: if the record of e2's representative is bottom, cjoin(e1, e2) only
\* adds e1 to the pending set of that representative; otherwise it returns
\* normally with e1 and e2 in one class.
CjoinDecidesOnRepresentative ==
    \A e1 \in DOMAIN nodes : \A e2 \in DOMAIN nodes :
        LET s0 == [St EXCEPT !.err = "none"]
            r2 == find(parent, e2)
            s1 == cjoin(s0, e1, e2)
        IN IF is_bottom(nodes[r2])
           THEN s1 = [s0 EXCEPT !.pending =
                                   Put(pending, r2, {e1} \cup pending[r2])]
           ELSE /\ s1.err = "none"
                /\ find(s1.parent, e1) = find(s1.parent, e2)

\* C33: settype drains pending(e).  For every typed ID e whose record is
\* bottom and every record src: settype(e, src) returns normally, e's record
\* then has src's structural fields, every ID that was in pending(e) is in
\* e's class, and pending(e) is empty.
SettypeDrainsPending ==
    \A e \in DOMAIN nodes : \A src \in DOMAIN nodes :
        LET s0 == [St EXCEPT !.err = "none"]
            s1 == settype(s0, e, src)
        IN is_bottom(nodes[e]) =>
              /\ s1.err = "none"
              /\ Structure(s1.nodes[e]) = Structure(nodes[src])
              /\ \A x \in pending[e] :
                    find(s1.parent, x) = find(s1.parent, e)
              /\ s1.pending[e] = {}

\* C34: allocate materialises one cell per pointer.  After a completed
\* x := allocate(), handling allocate on x again leaves the solver state as
\* it is: no new ID, no changed record, pending set or class.
AllocateOnlyOnce ==
    (phase \in {"dispatch", "returned"} /\ err = "none") =>
        \A k \in 1..pc :
            constraints[k].type = "allocate" =>
                handle_allocate(St, constraints[k].lhs) = St

\* the constraint kinds the dispatcher has a handler for
Handled == {"assign", "addr_of", "deref", "store", "op", "allocate"}

\* C35: no handler fails.  While a list of assign, addr_of, deref, store, op
\* and allocate constraints over registered variables is processed, no
\* exception is raised.
HandledConstraintsComplete ==
    (\A k \in 1..Len(constraints) : constraints[k].type \in Handled) =>
        err = "none"

\* the assignments x := y1; ...; x := yn handled in order; the first
\* exception ends the run
RECURSIVE assign_each(_, _, _)
assign_each(s, x, ys) ==
    IF ys = <<>> \/ s.err # "none" THEN s
    ELSE assign_each(handle_assign(s, x, Head(ys)), x, Tail(ys))

\* C36: handle_op is a sequence of assignments.  In every state where the
\* dispatcher is about to handle an op constraint x := op(y1, ..., yn),
\* handle_op(x, [y1, ..., yn]) leaves the state that handling x := y1; ...;
\* x := yn in that order leaves; so it does for the operand list extended
\* by one more registered variable (the receiver of the program's first
\* constraint, or x where that constraint has none), and handle_op(x, [])
\* changes nothing.
OpIsAssignSequence ==
    (/\ phase = "dispatch"
     /\ pc < Len(constraints)
     /\ constraints[pc + 1].type = "op") =>
        LET s == [St EXCEPT !.err = "none"]
            x == constraints[pc + 1].lhs
            ys == constraints[pc + 1].operand_variables
            first == constraints[1].lhs
            more == ys \o <<IF first \in variables THEN first ELSE x>>
        IN /\ handle_op(s, x, <<>>) = s
           /\ handle_op(s, x, ys) = assign_each(s, x, ys)
           /\ handle_op(s, x, more) = assign_each(s, x, more)

\* C36 witness: an op constraint with an operand has been handled without
\* an exception and has changed the solver state: a cell of an operand is
\* pending on a cell of the receiver or the other way round
OpHandledWithOperand ==
    /\ phase = "dispatch"
    /\ pc >= 1
    /\ err = "none"
    /\ constraints[pc].type = "op"
    /\ constraints[pc].operand_variables # <<>>
    /\ \E e \in DOMAIN pending : pending[e] # {}

====
